---- MODULE Spec2Model ----
(***************************************************************************)
(* Combined Savings Algorithm (src/main.py): a Clarke-Wright savings pass  *)
(* over a depot, customers with demand, and a catalog of vehicle types.    *)
(*                                                                         *)
(* Numbers.  The program works on floats; the model works on integers     *)
(* that stand for them.  Coordinates are grid points, a distance is        *)
(* floor(K * sqrt(dlat^2 + dlon^2)) and cost_per_km is an integer number   *)
(* of tenths (12 = 1.2).  Every sum, difference and product of the program *)
(* is rounded as a float rounds it, to the nearest value with a significand*)
(* of MantissaBits bits (ties to even): the float64 of the program, scaled *)
(* down.  On the small grid of Lats and Lons every value fits the          *)
(* significand and the arithmetic is exact; on the wide grid of FarLats    *)
(* and FarLons sums of legs exceed it and are rounded.                     *)
(*                                                                         *)
(* Indexing follows the program: location 0 is the depot, customers are    *)
(* 1..n.  A vehicle is its 1-based position in the catalog (the insertion  *)
(* order of the vehicle_types dict); None is the value 0.  A route key is  *)
(* a tuple; the None key is the empty tuple.                               *)
(***************************************************************************)
EXTENDS Integers, Sequences, FiniteSets, TLC

VARIABLES
    locations,      \* self.locations: index -> [latitude, longitude, demand]
    vehicle_types,  \* self.vehicle_types: catalog, in dict order
    cost_matrix,    \* self.cost_matrix
    routes,         \* self.routes: dict in insertion order, entries [key, route, vehicle]
    merge_count,    \* self.merge_count
    savings,        \* optimize_routes: the local list `savings`
    pos,            \* optimize_routes: number of savings the for loop has consumed
    log,            \* what each iteration printed: its pair and its outcome
    pc              \* where the run stands

vars == <<locations, vehicle_types, cost_matrix, routes, merge_count, savings, pos, log, pc>>

----------------------------------------------------------------------------
(* Bounds of the model and the input domains.                              *)

MaxCustomers == 3

\* demands of the customers
Demands == {1, 3}

Lats == {0, 1}
Lons == {0, 1}

\* a grid whose points lie far enough apart for the sum of a few legs to
\* exceed the significand
FarLats == {0, 383}
FarLons == {0, 235}

K == 100

None == 0
NoKey == <<>>

\* The catalogs the inputs are drawn from: a single type; the shape of
\* data/vehicle_types.py (a cheap small type before a dear large one); the
\* same in the other dict order; two types of equal cost; a catalog too
\* small for a demand of 3; and a small cheap type before a much dearer one.
Catalogs ==
    { << [capacity |-> 4, cost_per_km |-> 12] >>,
      << [capacity |-> 3, cost_per_km |-> 12], [capacity |-> 5, cost_per_km |-> 15] >>,
      << [capacity |-> 5, cost_per_km |-> 15], [capacity |-> 3, cost_per_km |-> 12] >>,
      << [capacity |-> 3, cost_per_km |-> 12], [capacity |-> 4, cost_per_km |-> 12] >>,
      << [capacity |-> 2, cost_per_km |-> 15], [capacity |-> 2, cost_per_km |-> 12] >>,
      << [capacity |-> 2, cost_per_km |-> 12], [capacity |-> 3, cost_per_km |-> 18] >> }

----------------------------------------------------------------------------
(* Helpers on sequences.                                                   *)

Range(s) == {s[k] : k \in 1..Len(s)}

Reverse(s) == [k \in 1..Len(s) |-> s[Len(s) + 1 - k]]

Abs(x) == IF x < 0 THEN -x ELSE x

Min(a, b) == IF a <= b THEN a ELSE b

\* floor of the square root of x, known to lie in lo..hi
RECURSIVE ISqrtIn(_, _, _)
ISqrtIn(x, lo, hi) ==
    IF lo >= hi THEN lo
    ELSE LET mid == (lo + hi + 1) \div 2
         IN  IF mid * mid <= x THEN ISqrtIn(x, mid, hi) ELSE ISqrtIn(x, lo, mid - 1)

ISqrt(x, hi) == ISqrtIn(x, 0, Min(hi, 46340))

----------------------------------------------------------------------------
(* Float arithmetic: numpy float64 (np.zeros of line 38), scaled down      *)

\* bits of the significand
MantissaBits == 15

RECURSIVE Pow2(_)
Pow2(e) == IF e = 0 THEN 1 ELSE 2 * Pow2(e - 1)

\* the spacing of the floats around x >= 0
RECURSIVE UlpFrom(_, _)
UlpFrom(x, u) == IF x < Pow2(MantissaBits) * u THEN u ELSE UlpFrom(x, 2 * u)

\* round to nearest, ties to even
RoundAbs(x) ==
    LET u == UlpFrom(x, 1)
        q == x \div u
        r == x % u
    IN  IF 2 * r < u \/ (2 * r = u /\ q % 2 = 0) THEN q * u ELSE (q + 1) * u

Round(x) == IF x < 0 THEN -RoundAbs(-x) ELSE RoundAbs(x)

fadd(a, b) == Round(a + b)
fsub(a, b) == Round(a - b)
fmul(a, b) == Round(a * b)

----------------------------------------------------------------------------
(* utils/distance_utils.py                                                 *)

\* 100 * sqrt(dlat^2 + dlon^2), in fixed point
Distance(dlat, dlon) ==
    Round(ISqrt(K * K * (dlat * dlat + dlon * dlon), K * (Abs(dlat) + Abs(dlon))))

\* the distances of all coordinate differences of the grid, computed once
LatDeltas == {a - b : a \in Lats, b \in Lats} \cup {a - b : a \in FarLats, b \in FarLats}
LonDeltas == {a - b : a \in Lons, b \in Lons} \cup {a - b : a \in FarLons, b \in FarLons}
DistanceTable == [dlat \in LatDeltas |-> [dlon \in LonDeltas |-> Distance(dlat, dlon)]]

calculate_distance(loc1, loc2) ==
    DistanceTable[loc1.latitude - loc2.latitude][loc1.longitude - loc2.longitude]

\* calculate_cost_matrix: every ordered pair of locations, the diagonal included
calculate_cost_matrix(locs) ==
    [i \in DOMAIN locs |-> [j \in DOMAIN locs |-> calculate_distance(locs[i], locs[j])]]

----------------------------------------------------------------------------
(* find_smallest_vehicle                                                   *)

\* a variant of line 58 whose sort is not stable: of two vehicles of equal
\* cost the later one of the catalog comes first
RECURSIVE InsertByCostTiesFirst(_, _, _)
InsertByCostTiesFirst(v, sorted, catalog) ==
    IF sorted = <<>> THEN <<v>>
    ELSE IF catalog[v].cost_per_km <= catalog[Head(sorted)].cost_per_km
         THEN <<v>> \o sorted
         ELSE <<Head(sorted)>> \o InsertByCostTiesFirst(v, Tail(sorted), catalog)

\* sorted(..., key=cost_per_km): a stable ascending sort, as an insertion of
\* each vehicle after the ones already placed whose cost is not larger
RECURSIVE InsertByCost(_, _, _)
InsertByCost(v, sorted, catalog) ==
    IF sorted = <<>> THEN <<v>>
    ELSE IF catalog[v].cost_per_km < catalog[Head(sorted)].cost_per_km
         THEN <<v>> \o sorted
         ELSE <<Head(sorted)>> \o InsertByCost(v, Tail(sorted), catalog)

RECURSIVE SortByCost(_, _, _)
SortByCost(k, sorted, catalog) ==
    IF k > Len(catalog) THEN sorted
    ELSE SortByCost(k + 1, InsertByCost(k, sorted, catalog), catalog)

sorted_vehicle_types(catalog) == SortByCost(1, <<>>, catalog)

\* a variant of lines 59-62 that falls back to the last vehicle tried
RECURSIVE FirstFitOrLast(_, _, _)
FirstFitOrLast(demand, sorted, catalog) ==
    IF sorted = <<>> THEN None
    ELSE IF demand <= catalog[Head(sorted)].capacity \/ Len(sorted) = 1 THEN Head(sorted)
         ELSE FirstFitOrLast(demand, Tail(sorted), catalog)

RECURSIVE FirstFit(_, _, _)
FirstFit(demand, sorted, catalog) ==
    IF sorted = <<>> THEN None
    ELSE IF demand <= catalog[Head(sorted)].capacity THEN Head(sorted)
         ELSE FirstFit(demand, Tail(sorted), catalog)

find_smallest_vehicle(demand) ==
    FirstFit(demand, sorted_vehicle_types(vehicle_types), vehicle_types)

----------------------------------------------------------------------------
(* calculate_route_distance, combine_routes                                *)

\* lines 74-76: distance += cost_matrix[route[i]][route[i + 1]], leg after leg
RECURSIVE LegSum(_, _, _)
LegSum(route, k, distance) ==
    IF k >= Len(route) THEN distance
    ELSE LegSum(route, k + 1, fadd(distance, cost_matrix[route[k]][route[k + 1]]))

\* a variant of line 77 that leaves out the leg back to the depot
calculate_route_distance_one_way(route) ==
    fadd(LegSum(route, 1, 0), cost_matrix[0][route[1]])

\* line 77 adds the sum of the two depot legs
calculate_route_distance(route) ==
    fadd(LegSum(route, 1, 0), fadd(cost_matrix[0][route[1]], cost_matrix[route[Len(route)]][0]))

\* a variant of line 93 that inserts route2 after the first stop of route1
merged_routes_inserted(route1, route2) ==
    << <<Head(route1)>> \o route2 \o Tail(route1),
       route2 \o route1,
       Reverse(route1) \o route2,
       route1 \o Reverse(route2) >>

\* lines 92-97
merged_routes(route1, route2) ==
    << route1 \o route2,
       route2 \o route1,
       Reverse(route1) \o route2,
       route1 \o Reverse(route2) >>

\* a variant of line 104 that also replaces the best candidate by one of
\* equal distance
RECURSIVE BestOfTiesLast(_, _, _)
BestOfTiesLast(candidates, k, best) ==
    IF k > Len(candidates) THEN best
    ELSE IF calculate_route_distance(candidates[k]) <= calculate_route_distance(best)
         THEN BestOfTiesLast(candidates, k + 1, candidates[k])
         ELSE BestOfTiesLast(candidates, k + 1, best)

\* the scan of lines 100-106: a candidate replaces the best one only when
\* strictly shorter
RECURSIVE BestOf(_, _, _)
BestOf(candidates, k, best) ==
    IF k > Len(candidates) THEN best
    ELSE IF calculate_route_distance(candidates[k]) < calculate_route_distance(best)
         THEN BestOf(candidates, k + 1, candidates[k])
         ELSE BestOf(candidates, k + 1, best)

combine_routes(route1, route2) ==
    LET c == merged_routes(route1, route2) IN BestOf(c, 2, c[1])

----------------------------------------------------------------------------
(* Route state                                                             *)

RECURSIVE total_demand(_)
total_demand(route) ==
    IF route = <<>> THEN 0
    ELSE locations[Head(route)].demand + total_demand(Tail(route))

\* next((key for key, value in self.routes.items() if c in value["route"]), None)
RECURSIVE route_key_of(_, _)
route_key_of(c, rs) ==
    IF rs = <<>> THEN NoKey
    ELSE IF c \in Range(Head(rs).route) THEN Head(rs).key
         ELSE route_key_of(c, Tail(rs))

\* self.routes[key]
route_at(key) == routes[CHOOSE k \in 1..Len(routes) : routes[k].key = key]

\* len(self.locations) - 1
n_customers == Cardinality(DOMAIN locations) - 1

\* line 27: one singleton route per customer, keyed by its tuple
initial_routes ==
    [k \in 1..n_customers |->
        [key |-> <<k>>, route |-> <<k>>,
         vehicle |-> find_smallest_vehicle(locations[k].demand)]]

----------------------------------------------------------------------------
(* Init: the state after CombinedSavingsAlgorithm(locations, vehicle_types) *)

\* CustomerLocation(id, latitude, longitude, demand), the id being the index
CustomerLocation == [latitude : Lats, longitude : Lons, demand : Demands]

\* data/locations.py: the depot comes first and has demand 0; the grid being
\* symmetric, it sits in a corner
Depot == [latitude |-> 0, longitude |-> 0, demand |-> 0]

LocationInputs ==
    UNION { { [k \in 0..n |-> IF k = 0 THEN Depot ELSE c[k]] : c \in [1..n -> CustomerLocation] }
            : n \in 0..MaxCustomers }

Init ==
    /\ locations \in LocationInputs
    /\ vehicle_types \in Catalogs
    /\ cost_matrix = calculate_cost_matrix(locations)
    /\ routes = initial_routes
    /\ merge_count = 0
    /\ savings = <<>>
    /\ pos = 0
    /\ log = <<>>
    /\ pc = "constructed"

----------------------------------------------------------------------------
(* optimize_routes, lines 113-124: the savings list                        *)

savings_ij(i, j) == fsub(fadd(cost_matrix[0][i], cost_matrix[0][j]), cost_matrix[i][j])

\* the nested loops of lines 118-121, over customer indices
RECURSIVE savings_pairs(_, _)
savings_pairs(i, j) ==
    IF i > n_customers THEN <<>>
    ELSE IF j > n_customers THEN savings_pairs(i + 1, i + 2)
         ELSE << <<savings_ij(i, j), i, j>> >> \o savings_pairs(i, j + 1)

\* savings.sort(reverse=True, key=lambda x: x[0]): stable, so an element goes
\* after every element already placed whose saving is not smaller
\* a variant of line 124 that sorts ascending and reverses the list, which
\* puts the later of two equal savings first
RECURSIVE InsertBySavingTiesFirst(_, _)
InsertBySavingTiesFirst(x, sorted) ==
    IF sorted = <<>> THEN <<x>>
    ELSE IF x[1] >= Head(sorted)[1]
         THEN <<x>> \o sorted
         ELSE <<Head(sorted)>> \o InsertBySavingTiesFirst(x, Tail(sorted))

RECURSIVE InsertBySaving(_, _)
InsertBySaving(x, sorted) ==
    IF sorted = <<>> THEN <<x>>
    ELSE IF x[1] > Head(sorted)[1]
         THEN <<x>> \o sorted
         ELSE <<Head(sorted)>> \o InsertBySaving(x, Tail(sorted))

RECURSIVE SortBySaving(_, _)
SortBySaving(rest, sorted) ==
    IF rest = <<>> THEN sorted
    ELSE SortBySaving(Tail(rest), InsertBySaving(Head(rest), sorted))

sorted_savings == SortBySaving(savings_pairs(1, 2), <<>>)

optimize_routes_begin ==
    /\ pc = "constructed"
    /\ savings' = sorted_savings
    /\ pos' = 0
    /\ pc' = IF sorted_savings = <<>> THEN "optimized" ELSE "optimizing"
    /\ UNCHANGED <<locations, vehicle_types, cost_matrix, routes, merge_count, log>>

----------------------------------------------------------------------------
(* optimize_routes, lines 128-168: one iteration of the merge loop         *)

NumColors == 7

\* plot_current_routes, after merge_count += 1: reading .name of a route
\* without a vehicle raises AttributeError, and a vehicle beyond the seven
\* colours raises KeyError
plot_raises(rs) ==
    \E k \in 1..Len(rs) : rs[k].vehicle = None \/ rs[k].vehicle > NumColors

\* a variant of line 140 that sums the first route only
combined_demand_first_only(route_i, route_j) == total_demand(route_i)

\* line 140: the demand of every customer of both routes
combined_demand(route_i, route_j) == total_demand(route_i \o route_j)

\* a variant of lines 147-150 that prices both routes with the vehicle chosen
\* for the merged route
original_cost_at_combined_vehicle(entry_i, entry_j) ==
    LET v == find_smallest_vehicle(total_demand(entry_i.route \o entry_j.route))
    IN  fmul(fadd(calculate_route_distance(entry_i.route), calculate_route_distance(entry_j.route)),
             vehicle_types[v].cost_per_km)

\* lines 147-150: each route at the cost of the vehicle it holds now
original_cost(entry_i, entry_j) ==
    fadd(fmul(calculate_route_distance(entry_i.route), vehicle_types[entry_i.vehicle].cost_per_km),
         fmul(calculate_route_distance(entry_j.route), vehicle_types[entry_j.vehicle].cost_per_km))

\* a variant of line 151 that charges the merged route one vehicle per customer
new_cost_per_customer(best_route, combined_vehicle) ==
    fmul(fmul(calculate_route_distance(best_route), vehicle_types[combined_vehicle].cost_per_km),
         Len(best_route))

\* line 151
new_cost(best_route, combined_vehicle) ==
    fmul(calculate_route_distance(best_route), vehicle_types[combined_vehicle].cost_per_km)

\* a variant of line 159 that also merges at equal cost
accepts_or_equal(new, original) == new <= original

\* a variant of line 159 that commits every merge a vehicle can carry
accepts_any_feasible(new, original) == TRUE

\* line 159
accepts(new, original) == new < original

\* a variant of lines 162-164 without line 163: route_j stays in the dict
replace_routes_keeps_j(rs, key_i, key_j, best_route, vehicle) ==
    Append(SelectSeq(rs, LAMBDA r : r.key # key_i),
           [key |-> best_route, route |-> best_route, vehicle |-> vehicle])

\* a variant of lines 162-164 that hands the new vehicle to every route left
replace_routes_one_vehicle(rs, key_i, key_j, best_route, vehicle) ==
    LET rest == SelectSeq(rs, LAMBDA r : r.key # key_i /\ r.key # key_j)
    IN  Append([k \in 1..Len(rest) |-> [rest[k] EXCEPT !.vehicle = vehicle]],
               [key |-> best_route, route |-> best_route, vehicle |-> vehicle])

\* a variant of line 164 that leaves the merged route the vehicle of route_i
replace_routes_vehicle_of_i(rs, key_i, key_j, best_route, vehicle) ==
    LET entry_i == rs[CHOOSE k \in 1..Len(rs) : rs[k].key = key_i]
    IN  Append(SelectSeq(rs, LAMBDA r : r.key # key_i /\ r.key # key_j),
               [key |-> best_route, route |-> best_route, vehicle |-> entry_i.vehicle])

\* a variant of line 164 that stores the merged route under the key of route_i
replace_routes_stale_key(rs, key_i, key_j, best_route, vehicle) ==
    Append(SelectSeq(rs, LAMBDA r : r.key # key_i /\ r.key # key_j),
           [key |-> key_i, route |-> best_route, vehicle |-> vehicle])

\* lines 162-164: both entries deleted, the merged one added at the end
replace_routes(rs, key_i, key_j, best_route, vehicle) ==
    Append(SelectSeq(rs, LAMBDA r : r.key # key_i /\ r.key # key_j),
           [key |-> best_route, route |-> best_route, vehicle |-> vehicle])

\* what an iteration prints: the pair, its outcome and, when line 156 is
\* reached, the two costs
Printed(i, j, outcome, original, new) ==
    [i |-> i, j |-> j, outcome |-> outcome, original_cost |-> original, new_cost |-> new]

optimize_routes_iteration ==
    /\ pc = "optimizing"
    /\ LET s == savings[pos + 1]
           i == s[2]
           j == s[3]
           route_i_key == route_key_of(i, routes)
           route_j_key == route_key_of(j, routes)
           continues == IF pos + 1 = Len(savings) THEN "optimized" ELSE "optimizing"
       IN  /\ pos' = pos + 1
           /\ IF route_i_key # NoKey /\ route_j_key # NoKey /\ route_i_key # route_j_key
              THEN LET entry_i == route_at(route_i_key)
                       entry_j == route_at(route_j_key)
                       combined_vehicle ==
                           find_smallest_vehicle(combined_demand(entry_i.route, entry_j.route))
                   IN  IF combined_vehicle = None
                       THEN /\ log' = Append(log, Printed(i, j, "insufficient", 0, 0))
                            /\ pc' = continues
                            /\ UNCHANGED <<routes, merge_count>>
                       ELSE IF entry_i.vehicle = None \/ entry_j.vehicle = None
                       THEN \* line 149: None has no cost_per_km
                            /\ pc' = "raised"
                            /\ UNCHANGED <<routes, merge_count, log>>
                       ELSE LET best_route == combine_routes(entry_i.route, entry_j.route)
                                original == original_cost(entry_i, entry_j)
                                new == new_cost(best_route, combined_vehicle)
                                merged == replace_routes(routes, route_i_key, route_j_key,
                                                         best_route, combined_vehicle)
                            IN  IF accepts(new, original)
                                THEN /\ routes' = merged
                                     /\ merge_count' = merge_count + 1
                                     /\ log' = Append(log, Printed(i, j, "merged", original, new))
                                     /\ pc' = IF plot_raises(merged) THEN "raised" ELSE continues
                                ELSE /\ log' = Append(log, Printed(i, j, "no_reduction", original, new))
                                     /\ pc' = continues
                                     /\ UNCHANGED <<routes, merge_count>>
              ELSE /\ log' = Append(log, Printed(i, j, "skipped", 0, 0))
                   /\ pc' = continues
                   /\ UNCHANGED <<routes, merge_count>>
    /\ UNCHANGED <<locations, vehicle_types, cost_matrix, savings>>

----------------------------------------------------------------------------
(* print_optimized_routes: reads vehicle.cost_per_km of every route        *)

print_raises(rs) == \E k \in 1..Len(rs) : rs[k].vehicle = None

print_optimized_routes ==
    /\ pc = "optimized"
    /\ pc' = IF print_raises(routes) THEN "raised" ELSE "printed"
    /\ UNCHANGED <<locations, vehicle_types, cost_matrix, routes, merge_count, savings, pos, log>>

----------------------------------------------------------------------------
(* find_smallest_vehicle on its own: a catalog of up to MaxVehicleTypes    *)
(* types and one call with a demand of 0..MaxSelectorDemand                *)

MaxVehicleTypes == 3
MaxSelectorDemand == 4

\* VehicleType(name, capacity, cost_per_km), the name being the position
VehicleType == [capacity : {1, 2, 3}, cost_per_km : {12, 15}]

CatalogInputs == UNION { [1..n -> VehicleType] : n \in 0..MaxVehicleTypes }

InitSelector ==
    /\ locations = [k \in {0} |-> Depot]
    /\ vehicle_types \in CatalogInputs
    /\ cost_matrix = calculate_cost_matrix(locations)
    /\ routes = initial_routes
    /\ merge_count = 0
    /\ savings = <<>>
    /\ pos = 0
    /\ log = <<>>
    /\ pc = "selecting"

select_vehicle ==
    /\ pc = "selecting"
    /\ \E demand \in 0..MaxSelectorDemand :
          log' = <<[demand |-> demand, vehicle |-> find_smallest_vehicle(demand)]>>
    /\ pc' = "selected"
    /\ UNCHANGED <<locations, vehicle_types, cost_matrix, routes, merge_count, savings, pos>>

NextSelector == select_vehicle

SpecSelector == InitSelector /\ [][NextSelector]_vars

----------------------------------------------------------------------------
(* combine_routes on its own: the customers 1..n on the wide grid, split   *)
(* into route1 = <<1, .., a>> and route2 = <<a + 1, .., n>> of at most      *)
(* MaxRouteLen customers each.  Any two disjoint routes are these two up   *)
(* to the names of the customers, the locations being arbitrary.           *)

MaxRouteLen == 2

FarLocation == [latitude : FarLats, longitude : FarLons, demand : {1}]

FarLocationInputs ==
    UNION { { [k \in 0..n |-> IF k = 0 THEN Depot ELSE f[k]] : f \in [1..n -> FarLocation] }
            : n \in 2..(2 * MaxRouteLen) }

InitCombine ==
    /\ locations \in FarLocationInputs
    /\ vehicle_types = <<[capacity |-> 4, cost_per_km |-> 12]>>
    /\ cost_matrix = calculate_cost_matrix(locations)
    /\ routes = initial_routes
    /\ merge_count = 0
    /\ savings = <<>>
    /\ pos = 0
    /\ log = <<>>
    /\ pc = "combining"

combine ==
    /\ pc = "combining"
    /\ \E a \in 1..(n_customers - 1) :
          LET route1 == [k \in 1..a |-> k]
              route2 == [k \in 1..(n_customers - a) |-> a + k]
          IN  /\ Len(route1) <= MaxRouteLen
              /\ Len(route2) <= MaxRouteLen
              /\ log' = <<[route1 |-> route1, route2 |-> route2,
                           best_route |-> combine_routes(route1, route2)]>>
    /\ pc' = "combined"
    /\ UNCHANGED <<locations, vehicle_types, cost_matrix, routes, merge_count, savings, pos>>

NextCombine == combine

SpecCombine == InitCombine /\ [][NextCombine]_vars

Next ==
    \/ optimize_routes_begin
    \/ optimize_routes_iteration
    \/ print_optimized_routes

Spec == Init /\ [][Next]_vars

----------------------------------------------------------------------------
(* Vocabulary of the properties                                            *)

Customers == 1..n_customers

VehicleIds == 1..Len(vehicle_types)

RouteIds == 1..Len(routes)

\* the routes of the RouteSet that hold customer c
RoutesHolding(c) == {k \in RouteIds : c \in Range(routes[k].route)}

\* how often c occurs in a sequence
Occurrences(c, route) == Cardinality({p \in 1..Len(route) : route[p] = c})

\* sum of the demands of the customers at positions p..Len(route)
RECURSIVE DemandFrom(_, _)
DemandFrom(route, p) ==
    IF p > Len(route) THEN 0 ELSE locations[route[p]].demand + DemandFrom(route, p + 1)

RouteDemand(route) == DemandFrom(route, 1)

\* some vehicle type can carry the demand
Fits(demand) == \E v \in VehicleIds : demand <= vehicle_types[v].capacity

EveryCustomerFits == \A c \in Customers : Fits(locations[c].demand)

Outcomes(outcome) == {k \in 1..Len(log) : log[k].outcome = outcome}

----------------------------------------------------------------------------
(* C1. Partition invariant: after construction and after every iteration   *)
(* of the merge loop, accepted or rejected, every customer 1..n occurs in  *)
(* exactly one route of the RouteSet and exactly once inside it, and the   *)
(* routes hold nothing but customers.                                      *)
C1_Partition ==
    /\ \A c \in Customers :
          /\ Cardinality(RoutesHolding(c)) = 1
          /\ \A k \in RoutesHolding(c) : Occurrences(c, routes[k].route) = 1
    /\ \A k \in RouteIds :
          /\ routes[k].route # <<>>
          /\ Range(routes[k].route) \subseteq Customers

\* three customers, the loop over, with a merge accepted and a merge rejected
C1_Witness ==
    /\ pc = "optimized"
    /\ n_customers = 3
    /\ Outcomes("merged") # {}
    /\ Outcomes("no_reduction") # {}

----------------------------------------------------------------------------
(* C2. An infeasible single customer is fatal at construction: when some   *)
(* customer's demand exceeds the capacity of every vehicle type, no        *)
(* RouteSet holding a route without a vehicle exists, and the run stands   *)
(* neither in the constructed engine, nor in the merge loop, nor in the    *)
(* report.                                                                 *)
C2_InfeasibleCustomerIsFatal ==
    ~EveryCustomerFits =>
        /\ \A k \in RouteIds : routes[k].vehicle # None
        /\ pc \notin {"constructed", "optimizing", "optimized", "printed"}

----------------------------------------------------------------------------
(* C3. Capacity invariant: when every customer's own demand fits some      *)
(* vehicle type, every route of the RouteSet, in every state from          *)
(* construction to the final one, has a vehicle and the demands of its     *)
(* customers sum to at most that vehicle's capacity.                       *)
C3_Capacity ==
    EveryCustomerFits =>
        \A k \in RouteIds :
            /\ routes[k].vehicle \in VehicleIds
            /\ RouteDemand(routes[k].route) <= vehicle_types[routes[k].vehicle].capacity

\* a merged route that fills its vehicle exactly, in the final RouteSet
C3_Witness ==
    /\ EveryCustomerFits
    /\ pc = "printed"
    /\ \E k \in RouteIds :
          /\ Len(routes[k].route) >= 2
          /\ routes[k].vehicle # None
          /\ RouteDemand(routes[k].route) = vehicle_types[routes[k].vehicle].capacity

----------------------------------------------------------------------------
(* The candidate of an iteration, read off the state before it             *)

\* the pair the loop takes next
NextI == savings[pos + 1][2]
NextJ == savings[pos + 1][3]

\* the RouteSet entry that holds customer c
EntryOf(c) == routes[CHOOSE k \in RouteIds : c \in Range(routes[k].route)]

\* depot -> stops in route order -> depot
RECURSIVE LegsFrom(_, _)
LegsFrom(route, p) ==
    IF p > Len(route) THEN 0
    ELSE cost_matrix[IF p = 0 THEN 0 ELSE route[p]][IF p = Len(route) THEN 0 ELSE route[p + 1]]
         + LegsFrom(route, p + 1)

RoundTrip(route) == LegsFrom(route, 0)

CostPerKm(v) == vehicle_types[v].cost_per_km

\* the two customers lie in different routes
TwoRoutes == EntryOf(NextI) # EntryOf(NextJ)

CombinedDemand == RouteDemand(EntryOf(NextI).route) + RouteDemand(EntryOf(NextJ).route)

CombinedVehicle == find_smallest_vehicle(CombinedDemand)

BestMerged == combine_routes(EntryOf(NextI).route, EntryOf(NextJ).route)

MergedCost == RoundTrip(BestMerged) * CostPerKm(CombinedVehicle)

SeparateCost ==
    RoundTrip(EntryOf(NextI).route) * CostPerKm(EntryOf(NextI).vehicle)
    + RoundTrip(EntryOf(NextJ).route) * CostPerKm(EntryOf(NextJ).vehicle)

EntrySet(rs) == {rs[k] : k \in 1..Len(rs)}

----------------------------------------------------------------------------
(* C4. Accept rule: for a saving (i, j) whose customers lie in two         *)
(* different routes with a feasible combined vehicle, the merge is         *)
(* committed if and only if the cost of the best merged sequence under the *)
(* combined vehicle is strictly less than the sum of the two routes' costs *)
(* under the vehicles they hold; equal cost is rejected.  A commit removes *)
(* exactly the two routes and inserts exactly one: the best merged         *)
(* sequence with the combined vehicle.                                     *)
C4_Step ==
    (pc = "optimizing" /\ TwoRoutes /\ Fits(CombinedDemand)) =>
        /\ (routes' # routes) <=> (MergedCost < SeparateCost)
        /\ (MergedCost < SeparateCost) =>
              /\ Len(routes') = Len(routes) - 1
              /\ EntrySet(routes') =
                    (EntrySet(routes) \ {EntryOf(NextI), EntryOf(NextJ)})
                    \cup {[key |-> BestMerged, route |-> BestMerged, vehicle |-> CombinedVehicle]}

C4_AcceptRule == [][C4_Step]_vars

\* a run that committed one merge and rejected another at equal, non-zero cost
C4_Witness ==
    /\ Outcomes("merged") # {}
    /\ \E k \in Outcomes("no_reduction") :
          log[k].new_cost = log[k].original_cost /\ log[k].new_cost > 0

----------------------------------------------------------------------------
(* C5. Monotonic cost: the total cost of the RouteSet (over its routes,    *)
(* round-trip distance times the cost per km of the assigned vehicle) is   *)
(* strictly smaller right after an accepted merge than right before it,    *)
(* and no step of the run increases it.  A route without a vehicle has no  *)
(* cost to count.                                                          *)
RECURSIVE TotalCostFrom(_, _)
TotalCostFrom(rs, k) ==
    IF k > Len(rs) THEN 0
    ELSE (IF rs[k].vehicle = None THEN 0 ELSE RoundTrip(rs[k].route) * CostPerKm(rs[k].vehicle))
         + TotalCostFrom(rs, k + 1)

TotalCost(rs) == TotalCostFrom(rs, 1)

C5_Step ==
    /\ (routes' # routes) => TotalCost(routes') < TotalCost(routes)
    /\ TotalCost(routes') <= TotalCost(routes)

C5_MonotonicCost == [][C5_Step]_vars

\* two merges accepted in one run, the second into a dearer vehicle
C5_Witness ==
    /\ merge_count = 2
    /\ Len(routes) = 1
    /\ routes[1].vehicle # None
    /\ \E v \in VehicleIds : CostPerKm(v) < CostPerKm(routes[1].vehicle)

----------------------------------------------------------------------------
(* C6. An infeasible merge is a silent skip: when the summed demand of the *)
(* two routes holding i and j exceeds every vehicle's capacity, the        *)
(* iteration raises nothing, leaves the RouteSet as it is and the loop     *)
(* moves to the next saving.  Scenario B: two customers, each feasible     *)
(* alone and infeasible together, end the run as the two singleton routes. *)
ScenarioB ==
    /\ n_customers = 2
    /\ EveryCustomerFits
    /\ ~Fits(locations[1].demand + locations[2].demand)

Singletons == [k \in Customers |-> <<k>>]

C6_Step ==
    /\ (pc = "optimizing" /\ TwoRoutes /\ ~Fits(CombinedDemand)) =>
          /\ routes' = routes
          /\ merge_count' = merge_count
          /\ pos' = pos + 1
          /\ pc' \in {"optimizing", "optimized"}
    /\ ScenarioB =>
          /\ pc' # "raised"
          /\ pc' \in {"optimized", "printed"} =>
                [k \in 1..Len(routes') |-> routes'[k].route] = Singletons

C6_InfeasibleMergeSkipped == [][C6_Step]_vars

\* Scenario B at the end of its run, its one candidate skipped for capacity
C6_Witness ==
    /\ ScenarioB
    /\ pc = "printed"
    /\ Outcomes("insufficient") = {1}
    /\ savings[1][1] > 0

----------------------------------------------------------------------------
(* C7. The RouteSet changes only by committed merges: an iteration that    *)
(* commits none (same route, no feasible vehicle, cost not strictly lower) *)
(* and every step outside the loop leave every route's sequence, vehicle   *)
(* and the number of routes as they are; a committing iteration leaves     *)
(* every route other than the two merged ones as it is, in its place       *)
(* among the others.                                                       *)
Others(rs, a, b) == SelectSeq(rs, LAMBDA r : r # a /\ r # b)

C7_Commits ==
    /\ pc = "optimizing"
    /\ TwoRoutes
    /\ Fits(CombinedDemand)
    /\ MergedCost < SeparateCost

C7_Step ==
    IF C7_Commits
    THEN /\ Len(routes') = Len(routes) - 1
         /\ SubSeq(routes', 1, Len(routes') - 1) = Others(routes, EntryOf(NextI), EntryOf(NextJ))
    ELSE routes' = routes

C7_OnlyMergesMutate == [][C7_Step]_vars

\* a merge committed while a third route with another vehicle stood by, and
\* an iteration that changed nothing
C7_Witness ==
    /\ merge_count = 1
    /\ Len(routes) = 2
    /\ routes[1].vehicle # routes[2].vehicle
    /\ routes[1].vehicle # None
    /\ Len(log) >= 2

----------------------------------------------------------------------------
(* C8. Termination in a single pass: once the merge loop is over, it has   *)
(* performed exactly n(n-1)/2 iterations, one for each unordered pair of   *)
(* customers and none twice, whatever the iterations decided.              *)
NumPairs == (n_customers * (n_customers - 1)) \div 2

AllPairs == {<<i, j>> \in Customers \X Customers : i < j}

C8_SinglePass ==
    pc \notin {"constructed", "optimizing"} =>
        /\ pos = NumPairs
        /\ Len(log) = NumPairs
        /\ {<<log[k].i, log[k].j>> : k \in 1..Len(log)} = AllPairs

----------------------------------------------------------------------------
(* C9. Savings ordering: from the start of the loop on, the savings list   *)
(* holds, for every unordered pair i < j, the triple of cost(depot, i) +   *)
(* cost(depot, j) - cost(i, j) from the initial cost matrix, i and j, in   *)
(* descending order of saving with equal savings in enumeration order (i,  *)
(* then j, ascending); merging routes never changes it, and the k-th merge *)
(* attempt is the k-th entry of the list.                                  *)
PairBefore(a, b) == a[2] < b[2] \/ (a[2] = b[2] /\ a[3] < b[3])

C9_SavingsOrdering ==
    pc # "constructed" =>
        /\ cost_matrix = calculate_cost_matrix(locations)
        /\ Len(savings) = NumPairs
        /\ \A k \in 1..Len(savings) :
              /\ <<savings[k][2], savings[k][3]>> \in AllPairs
              /\ savings[k][1] = cost_matrix[0][savings[k][2]] + cost_matrix[0][savings[k][3]]
                                 - cost_matrix[savings[k][2]][savings[k][3]]
        /\ \A k, l \in 1..Len(savings) :
              k < l => \/ savings[k][1] > savings[l][1]
                       \/ savings[k][1] = savings[l][1] /\ PairBefore(savings[k], savings[l])
        /\ Len(log) <= Len(savings)
        /\ \A k \in 1..Len(log) : log[k].i = savings[k][2] /\ log[k].j = savings[k][3]

\* a list with two equal savings next to each other and a smaller one after
\* them, all three attempted, the first of them merged
C9_Witness ==
    /\ pc = "optimized"
    /\ Len(log) = 3
    /\ savings[1][1] = savings[2][1]
    /\ savings[2][1] > savings[3][1]
    /\ log[1].outcome = "merged"

----------------------------------------------------------------------------
(* C10. Vehicle selector: for a demand >= 0 and any catalog,               *)
(* find_smallest_vehicle returns None exactly when no vehicle has capacity *)
(* >= demand; otherwise it returns a vehicle with capacity >= demand whose *)
(* cost per km is minimal among those, the earliest of the catalog when    *)
(* several share that cost.                                                *)
Feasible(demand) == {v \in VehicleIds : vehicle_types[v].capacity >= demand}

C10_VehicleSelector ==
    pc = "selected" =>
        LET demand == log[1].demand
            v == log[1].vehicle
        IN  /\ (v = None) <=> (Feasible(demand) = {})
            /\ v # None =>
                  /\ v \in Feasible(demand)
                  /\ \A u \in Feasible(demand) :
                        /\ CostPerKm(v) <= CostPerKm(u)
                        /\ CostPerKm(u) = CostPerKm(v) => v <= u

\* a call that passes over a cheaper vehicle too small for the demand and
\* picks the first of two feasible vehicles of equal cost
C10_Witness ==
    /\ pc = "selected"
    /\ log[1].vehicle # None
    /\ \E u \in Feasible(log[1].demand) :
          u > log[1].vehicle /\ CostPerKm(u) = CostPerKm(log[1].vehicle)
    /\ \E u \in VehicleIds \ Feasible(log[1].demand) :
          CostPerKm(u) < CostPerKm(log[1].vehicle)

\* a call with a demand that no vehicle of a non-empty catalog can carry
C10_WitnessNone ==
    /\ pc = "selected"
    /\ log[1].vehicle = None
    /\ vehicle_types # <<>>

----------------------------------------------------------------------------
(* C11  Merge evaluator.  For two non-empty disjoint routes combine_routes *)
(* returns one of the four sequences route1+route2, route2+route1,         *)
(* reverse(route1)+route2, route1+reverse(route2): one whose round-trip    *)
(* distance, as calculate_route_distance computes it, is the minimum of    *)
(* the four, and the first of the list among those of minimum distance.    *)

FourCandidates(route1, route2) ==
    << route1 \o route2, route2 \o route1,
       Reverse(route1) \o route2, route1 \o Reverse(route2) >>

Combined == log[1]

C11_MergeEvaluator ==
    pc = "combined" =>
        LET four == FourCandidates(Combined.route1, Combined.route2)
            d(k) == calculate_route_distance(four[k])
        IN  \E k \in 1..4 :
               /\ Combined.best_route = four[k]
               /\ \A m \in 1..4 : d(k) <= d(m)
               /\ \A m \in 1..(k - 1) : d(m) > d(k)

\* a call whose result is not the first candidate, being strictly shorter
\* than it, while a later candidate of another order is exactly as short
C11_Witness ==
    /\ pc = "combined"
    /\ LET four == FourCandidates(Combined.route1, Combined.route2)
           d(k) == calculate_route_distance(four[k])
       IN  \E k \in 2..3 : \E m \in (k + 1)..4 :
              /\ Combined.best_route = four[k]
              /\ d(k) < d(1)
              /\ four[m] # four[k]
              /\ d(m) = d(k)

----------------------------------------------------------------------------
(* C13  Scenario A.  Two customers at identical coordinates, a single      *)
(* vehicle type whose capacity covers their combined demand: the run ends  *)
(* with the two customers merged into one route.                           *)

Finished == pc \in {"optimized", "printed"}

ScenarioA ==
    /\ n_customers = 2
    /\ locations[1].latitude = locations[2].latitude
    /\ locations[1].longitude = locations[2].longitude
    /\ Len(vehicle_types) = 1
    /\ locations[1].demand + locations[2].demand <= vehicle_types[1].capacity

MergedIntoOne == Len(routes) = 1 /\ Range(routes[1].route) = {1, 2}

\* the statement for every such instance
C13_ScenarioA == (ScenarioA /\ Finished) => MergedIntoOne

\* C13, for customers at a positive distance from the depot: the run ends
\* with the two customers merged into one route.
C13_ScenarioAOffDepot ==
    (ScenarioA /\ cost_matrix[0][1] > 0 /\ Finished) => MergedIntoOne

C13_Witness ==
    /\ ScenarioA
    /\ cost_matrix[0][1] > 0
    /\ pc = "printed"
    /\ MergedIntoOne
    /\ Cardinality(Outcomes("merged")) = 1

----------------------------------------------------------------------------
(* C14  Scenario D.  Three customers, merging any two singleton routes     *)
(* reduces cost, merging the resulting two-customer route with the third   *)
(* customer's route does not: exactly one merge is committed over the      *)
(* whole pass, the two later savings are rejected, and the run ends with   *)
(* exactly 2 routes.                                                       *)

\* the cost of a route under the cheapest vehicle able to carry it
CostOf(route) == RoundTrip(route) * CostPerKm(find_smallest_vehicle(RouteDemand(route)))

\* merging route1 and route2 is feasible and strictly cheaper than keeping them
MergeReduces(route1, route2) ==
    /\ Fits(RouteDemand(route1))
    /\ Fits(RouteDemand(route2))
    /\ Fits(RouteDemand(route1) + RouteDemand(route2))
    /\ CostOf(combine_routes(route1, route2)) < CostOf(route1) + CostOf(route2)

\* the pair merged first and the customer left out of it
FirstPair == combine_routes(<<log[1].i>>, <<log[1].j>>)
Third == CHOOSE c \in Customers : c \notin {log[1].i, log[1].j}

ScenarioD ==
    /\ n_customers = 3
    /\ \A a \in Customers : \A b \in Customers : a < b => MergeReduces(<<a>>, <<b>>)
    /\ Len(log) = 3
    /\ ~MergeReduces(FirstPair, <<Third>>)

Rejected(k) == log[k].outcome \in {"insufficient", "no_reduction"}

C14_ScenarioD ==
    (ScenarioD /\ Finished) =>
        /\ log[1].outcome = "merged"
        /\ Rejected(2)
        /\ Rejected(3)
        /\ merge_count = 1
        /\ Len(routes) = 2

\* a finished run of Scenario D whose third customer was turned down on cost
C14_Witness ==
    /\ ScenarioD
    /\ pc = "printed"
    /\ log[2].outcome = "no_reduction"
    /\ log[3].outcome = "no_reduction"
    /\ Len(routes) = 2

----------------------------------------------------------------------------
(* C15  Cheapest-vehicle invariant.  When every customer's own demand fits *)
(* some vehicle, in every state each route's vehicle is the one            *)
(* find_smallest_vehicle returns for the route's total demand: a vehicle   *)
(* able to carry the route, and none able to carry it costs less.          *)

Carries(v, route) == RouteDemand(route) <= vehicle_types[v].capacity

C15_CheapestVehicle ==
    EveryCustomerFits =>
        \A k \in RouteIds :
            LET r == routes[k] IN
            /\ r.vehicle = find_smallest_vehicle(RouteDemand(r.route))
            /\ r.vehicle \in VehicleIds
            /\ Carries(r.vehicle, r.route)
            /\ \A u \in VehicleIds :
                   Carries(u, r.route) => CostPerKm(r.vehicle) <= CostPerKm(u)

\* a merged route under a vehicle that neither of its customers' singleton
\* routes had, beside a route still under the cheaper one
C15_Witness ==
    /\ EveryCustomerFits
    /\ \E k \in RouteIds :
          /\ Len(routes[k].route) = 2
          /\ \A c \in Range(routes[k].route) :
                 find_smallest_vehicle(locations[c].demand) # routes[k].vehicle
    /\ \E k \in RouteIds : \E m \in RouteIds : routes[k].vehicle # routes[m].vehicle

----------------------------------------------------------------------------
(* C16  Four variants suffice.  The cost matrix being symmetric, the       *)
(* round-trip distance of combine_routes(r1, r2) equals the minimum        *)
(* round-trip distance over all eight concatenations of r1 and r2, in      *)
(* either order, each forward or reversed, and so equals the distance of   *)
(* combine_routes(r2, r1); whether the merge is accepted does not depend   *)
(* on which of the two routes is looked up first.                          *)

EightConcatenations(route1, route2) ==
    UNION { {x \o y, y \o x} : x \in {route1, Reverse(route1)},
                                y \in {route2, Reverse(route2)} }

SymmetricCosts ==
    \A a \in DOMAIN cost_matrix : \A b \in DOMAIN cost_matrix :
        cost_matrix[a][b] = cost_matrix[b][a]

\* the distance of the result is the least of the eight
LeastOfEight(best_route, route1, route2) ==
    \A c \in EightConcatenations(route1, route2) :
        calculate_route_distance(best_route) <= calculate_route_distance(c)

\* the distance of the result is that of the call with the routes exchanged
SameWhenExchanged(best_route, route1, route2) ==
    calculate_route_distance(best_route)
        = calculate_route_distance(combine_routes(route2, route1))

\* line 159 decides alike for the routes looked up in the other order
SameDecisionWhenExchanged(best_route, route1, route2) ==
    LET entry(r) == [key |-> r, route |-> r, vehicle |-> 1]
    IN  accepts(new_cost(best_route, 1), original_cost(entry(route1), entry(route2)))
        <=> accepts(new_cost(combine_routes(route2, route1), 1),
                    original_cost(entry(route2), entry(route1)))

\* the statement for routes of any length
C16_FourVariantsSuffice ==
    (pc = "combined" /\ SymmetricCosts) =>
        /\ LeastOfEight(Combined.best_route, Combined.route1, Combined.route2)
        /\ SameWhenExchanged(Combined.best_route, Combined.route1, Combined.route2)

\* C16, as far as the float sums allow: each of the eight concatenations
\* is one of the four candidates or the reversal of one, and for two routes
\* of at most three customers together the distance of the result is the
\* least of the eight, equals that of the exchanged call, and line 159
\* decides alike in both orders.
C16_FourVariantsUpToReversal ==
    (pc = "combined" /\ SymmetricCosts) =>
        LET r1 == Combined.route1
            r2 == Combined.route2
            four == Range(FourCandidates(r1, r2))
        IN  /\ \A c \in EightConcatenations(r1, r2) : c \in four \/ Reverse(c) \in four
            /\ Len(r1) + Len(r2) <= 3 =>
                  /\ LeastOfEight(Combined.best_route, r1, r2)
                  /\ SameWhenExchanged(Combined.best_route, r1, r2)
                  /\ SameDecisionWhenExchanged(Combined.best_route, r1, r2)

\* three customers: the result is not the first candidate, and a
\* concatenation outside the four candidates is strictly longer than it
C16_Witness ==
    /\ pc = "combined"
    /\ SymmetricCosts
    /\ Len(Combined.route1) + Len(Combined.route2) = 3
    /\ Combined.best_route # FourCandidates(Combined.route1, Combined.route2)[1]
    /\ \E c \in EightConcatenations(Combined.route1, Combined.route2) :
          /\ c \notin Range(FourCandidates(Combined.route1, Combined.route2))
          /\ calculate_route_distance(c) > calculate_route_distance(Combined.best_route)

----------------------------------------------------------------------------
(* C17  Block preservation.  A merge puts the two routes one after the     *)
(* other, each in its order or fully reversed, never interleaved: its      *)
(* result has the length of the two together and exactly their customers,  *)
(* and every route of the RouteSet before a step appears in a route of the *)
(* RouteSet after it as one contiguous block, forward or reversed.  The    *)
(* block relation being transitive, every earlier-merged route is a block  *)
(* of the route that holds its customers at any later time.                *)

\* block occupies consecutive positions of route, forward or reversed
IsBlock(block, route) ==
    \E p \in 0..(Len(route) - Len(block)) :
        SubSeq(route, p + 1, p + Len(block)) \in {block, Reverse(block)}

C17_Step ==
    /\ \A k \in RouteIds : \E m \in 1..Len(routes') : IsBlock(routes[k].route, routes'[m].route)
    /\ (routes' # routes) =>
          LET route_i == EntryOf(NextI).route
              route_j == EntryOf(NextJ).route
              merged == routes'[Len(routes')].route
          IN  /\ merged \in EightConcatenations(route_i, route_j)
              /\ Len(merged) = Len(route_i) + Len(route_j)
              /\ Range(merged) = Range(route_i) \cup Range(route_j)

C17_BlockPreservation == [][C17_Step]_vars

\* two merges: the pair merged first lies at the end of the route of three,
\* behind the customer that joined it later
C17_Witness ==
    /\ merge_count = 2
    /\ Len(routes) = 1
    /\ Len(routes[1].route) = 3
    /\ \E k \in Outcomes("merged") :
          /\ \A m \in Outcomes("merged") : k <= m
          /\ SubSeq(routes[1].route, 2, 3) = <<log[k].i, log[k].j>>

----------------------------------------------------------------------------
(* C18  Key and count consistency.  In every reachable state each entry's  *)
(* key is the tuple of its own route, no two entries share a key, and the  *)
(* number of routes is the number of customers minus merge_count; a step   *)
(* takes one route off the RouteSet exactly when it commits a merge, and   *)
(* no step changes the number of routes otherwise.                         *)

C18_Consistent ==
    /\ \A k \in RouteIds : routes[k].key = routes[k].route
    /\ \A k \in RouteIds : \A m \in RouteIds : routes[k].key = routes[m].key => k = m
    /\ Len(routes) = n_customers - merge_count

\* the step printed a committed merge
CommitsMerge == Len(log') = Len(log) + 1 /\ log'[Len(log')].outcome = "merged"

C18_Step ==
    /\ CommitsMerge => (Len(routes') = Len(routes) - 1 /\ merge_count' = merge_count + 1)
    /\ ~CommitsMerge => (Len(routes') = Len(routes) /\ merge_count' = merge_count)

C18_KeyAndCount == []C18_Consistent /\ [][C18_Step]_vars

\* one merge committed and a later one turned down: a key of two customers
\* beside a singleton's, two routes for three customers
C18_Witness ==
    /\ n_customers = 3
    /\ merge_count = 1
    /\ Len(routes) = 2
    /\ \E k \in RouteIds : Len(routes[k].key) = 2
    /\ \E k \in Outcomes("merged") : \E m \in Outcomes("no_reduction") : k < m

====
